---- MODULE Spec2Model ----
(***************************************************************************)
(* Goodtop switch integration: the scraping client (GoodtopApiClient), the *)
(* coordinator that holds its last snapshot, and the switch entities that  *)
(* call its mutations.                                                      *)
(*                                                                         *)
(* A page body is the sequence of the items the client's regular           *)
(* expressions look at (table rows, form inputs, labels, options); a       *)
(* response is a transport exception, or a status with a body that may or  *)
(* may not decode as text.                                                 *)
(***************************************************************************)
EXTENDS Integers, Sequences, FiniteSets, TLC

VARIABLES client, fixture, faults, prev_faults, stats_rows, mac_rows, device, script,
          coordinator, obj, pc, call, data, session, reqs, result

vars == <<client, fixture, faults, prev_faults, stats_rows, mac_rows, device, script,
          coordinator, obj, pc, call, data, session, reqs, result>>

(***************************************************************************)
(* Bounds of the model.                                                    *)
(***************************************************************************)
\* rows of one port-statistics page
MaxStatsRows == 2
\* rows of one forwarding-table page
MaxMacRows == 2
\* items of one port-settings page
MaxSettingsTokens == 3
\* items of one PoE-ports page
MaxPoeTokens == 2
\* requests of one poll that the network may fail in the static-device specification
MaxFaults == 1

SeqsUpTo(S, n) == UNION {[1..k -> S] : k \in 0..n}

Tasks == {"poll", "service"}

\* port numbers that occur in pages and calls; 12 carries the label prefix "1"
PortNumbers == {1, 12}

(***************************************************************************)
(* Text helpers, defined on the texts the model uses.                      *)
(***************************************************************************)
\* str.strip()
Strip(s) ==
    CASE s = " Disable " -> "Disable"
      [] s = " ZX-SWTG218 " -> "ZX-SWTG218"
      [] s = " " -> ""
      [] OTHER -> s

\* str.upper()
Upper(s) ==
    CASE s = "00:e2:69:73:71:3a" -> "00:E2:69:73:71:3A"
      [] OTHER -> s

\* str.lower(), and the folding re.IGNORECASE applies
Lower(s) ==
    CASE s = "Device Model" -> "device model"
      [] s = "DEVICE MODEL" -> "device model"
      [] s = "MAC Address" -> "mac address"
      [] s = "IP Address" -> "ip address"
      [] s = "Firmware Version" -> "firmware version"
      [] s = "Hardware Version" -> "hardware version"
      [] s = "Down" -> "down"
      [] s = "DOWN" -> "down"
      [] s = "Up" -> "up"
      [] s = "1000M" -> "1000m"
      [] s = "Enable" -> "enable"
      [] s = "Disable" -> "disable"
      [] OTHER -> s

\* the texts [\d.]+ matches
DigitDotTexts == {"12.5", "7", "1.2.3", "."}

\* the texts float() accepts, in tenths of a watt
FloatTenths(s) ==
    CASE s = "12.5" -> 125
      [] s = "7" -> 70
      [] OTHER -> 0

FloatRaises(s) == s \notin {"12.5", "7"}

\* str() of an integer
Digit(d) ==
    CASE d = 0 -> "0" [] d = 1 -> "1" [] d = 2 -> "2" [] d = 3 -> "3" [] d = 4 -> "4"
      [] d = 5 -> "5" [] d = 6 -> "6" [] d = 7 -> "7" [] d = 8 -> "8" [] OTHER -> "9"

RECURSIVE Str(_)
Str(n) ==
    IF n < 0 THEN "-" \o Str(-n)
    ELSE IF n < 10 THEN Digit(n)
    ELSE Str(n \div 10) \o Digit(n % 10)

\* "Port\s*N" matched against a label "Port L": N's digits are a prefix of L's
RECURSIVE LabelMatches(_, _)
LabelMatches(n, label) ==
    \/ n = label
    \/ label >= 10 /\ LabelMatches(n, label \div 10)

(***************************************************************************)
(* PortData and GoodtopData, with the dataclasses' defaults.               *)
(***************************************************************************)
PortData(id, state, link, tx_good, tx_bad, rx_good, rx_bad) ==
    [id |-> id, state |-> state, link |-> link,
     tx_good |-> tx_good, tx_bad |-> tx_bad, rx_good |-> rx_good, rx_bad |-> rx_bad,
     poe_enabled |-> FALSE, speed_duplex |-> "0", flow_control |-> "0",
     connected_macs |-> <<>>]

GoodtopData ==
    [model |-> "", mac_address |-> "", ip_address |-> "",
     firmware_version |-> "", hardware_version |-> "",
     poe_total_watts |-> 0, ports |-> <<>>]

\* data.ports[port_id] = record
PortsPut(ports, port_id, record) ==
    [p \in (DOMAIN ports) \cup {port_id} |-> IF p = port_id THEN record ELSE ports[p]]

(***************************************************************************)
(* Responses.                                                              *)
(***************************************************************************)
NoException == "none"
\* what a request or the handling of its body raises; all derive from Exception
Exceptions == {"ClientError", "TimeoutError", "UnicodeDecodeError", "ValueError"}
TransportExceptions == {"ClientError", "TimeoutError"}

\* a clause that names the client library's errors only
except_ClientError(exc) == exc = "ClientError"

\* the clause "except Exception"
except_Exception(exc) == exc \in Exceptions

Http(status, decodable, body) ==
    [exc |-> NoException, status |-> status, decodable |-> decodable, body |-> body]
Failure(exc) ==
    [exc |-> exc, status |-> 0, decodable |-> TRUE, body |-> <<>>]

NonOkStatuses == {401, 500}

\* every response to a request whose 200 bodies are Bodies
Responses(Bodies) ==
    {Http(200, TRUE, b) : b \in Bodies}
        \cup {Http(200, FALSE, <<>>)}
        \cup {Http(s, TRUE, <<>>) : s \in NonOkStatuses}
        \cup {Failure(e) : e \in TransportExceptions}

\* a POST, whose body the client never parses
PostResponses == Responses({<<>>})


(***************************************************************************)
(* Page bodies.                                                            *)
(***************************************************************************)
\* /info.cgi: the <th>label</th><td>value</td> pairs, in document order; an empty
\* value is an empty cell, which ([^<]+) does not match
InfoRow(label, value) == [label |-> label, value |-> value]

InfoBodies ==
    { <<>>,
      <<InfoRow("Uptime", "3 days")>>,
      <<InfoRow("DEVICE MODEL", ""), InfoRow("Device Model", " ZX-SWTG218 "),
        InfoRow("MAC Address", "00:E2:69:73:71:3A"), InfoRow("IP Address", "192.168.200.11"),
        InfoRow("Firmware Version", " "), InfoRow("Hardware Version", "V1.1")>> }

\* /pse_system.cgi: the <input name=... value=...> elements, in document order
InputElement(name, value) == [name |-> name, value |-> value]

PoeSystemBodies ==
    { <<>>,
      <<InputElement("pse_con_pwr", "abc"), InputElement("pse_con_pwr", "12.5")>>,
      <<InputElement("pse_max_pwr", "7")>>,
      <<InputElement("pse_con_pwr", "1.2.3")>>,
      <<InputElement("pse_con_pwr", "."), InputElement("pse_con_pwr", "12.5")>> }

\* /port.cgi?page=stats: the table rows; wf says the row matches the seven-cell pattern
StatsRow(wf, port, state, link, tx_good, tx_bad, rx_good, rx_bad) ==
    [wf |-> wf, port |-> port, state |-> state, link |-> link,
     tx_good |-> tx_good, tx_bad |-> tx_bad, rx_good |-> rx_good, rx_bad |-> rx_bad]

StatsRows ==
    {StatsRow(TRUE, p, "Enable", "1000M", 120, 0, 98, 1) : p \in PortNumbers}
        \cup {StatsRow(TRUE, 1, " Disable ", "Down", 0, 0, 0, 0)}
        \cup {StatsRow(FALSE, 1, "Enable", "Up", 0, 0, 0, 0)}

StatsBodies == SeqsUpTo(StatsRows, MaxStatsRows)

\* /port.cgi and /pse_port.cgi: the items the patterns look for, in document order:
\* a "Port L" label, the words speed_duplex, flow, Enable and Disable, and
\* <option value="v"> with or without selected
Token(kind, port, value) == [kind |-> kind, port |-> port, value |-> value]
Label(port) == Token("label", port, "")
Word(w) == Token("word", 0, w)
Option(v, selected) == Token(IF selected THEN "selected" ELSE "option", 0, v)

SettingsTokens ==
    {Label(p) : p \in PortNumbers}
        \cup {Word("speed_duplex"), Word("flow"), Option("5", TRUE), Option("3", FALSE)}

SettingsBodies == SeqsUpTo(SettingsTokens, MaxSettingsTokens)

PoeTokens ==
    {Label(p) : p \in PortNumbers} \cup {Word("Enable"), Word("Disable"), Word("enable")}

PoePortsBodies == SeqsUpTo(PoeTokens, MaxPoeTokens)

\* /mac.cgi?page=fwd_tbl: the table rows; wf says the row matches the five-cell pattern
MacRow(wf, mac, port) == [wf |-> wf, mac |-> mac, port |-> port]

MacAddresses == {"00:e2:69:73:71:3a", "00:E2:69:73:71:3A", "AA:BB:CC:DD:EE:FF"}

MacRows ==
    {MacRow(TRUE, m, 1) : m \in MacAddresses} \cup {MacRow(FALSE, "AA:BB:CC:DD:EE:FF", 1)}

MacBodies == SeqsUpTo(MacRows, MaxMacRows)

(***************************************************************************)
(* The parsers.                                                            *)
(***************************************************************************)
\* the least index of hits that is at least from, or 0: the leftmost match
FirstIndex(hits, from) ==
    IF \E i \in hits : i >= from
    THEN CHOOSE i \in hits : i >= from /\ \A j \in hits : j >= from => i <= j
    ELSE 0

extract_value(html, label) ==
    LET Hit(row) == Lower(row.label) = Lower(label) /\ row.value # ""
        i == FirstIndex({n \in 1..Len(html) : Hit(html[n])}, 1)
    IN  IF i # 0 THEN Strip(html[i].value) ELSE ""

\* a fetch step ends with the snapshot as it stands and the exception it raised, if any
Done(d) == [data |-> d, exc |-> NoException]
Raise(d, exc) == [data |-> d, exc |-> exc]

\* the exception of the request and of response.text(), before any parsing
TextException(resp) ==
    IF resp.exc # NoException THEN resp.exc
    ELSE IF resp.status = 200 /\ ~resp.decodable THEN "UnicodeDecodeError"
    ELSE NoException

fetch_system_info(d, resp) ==
    IF TextException(resp) # NoException THEN Raise(d, TextException(resp))
    ELSE IF resp.status # 200 THEN Done(d)
    ELSE Done([d EXCEPT !.model = extract_value(resp.body, "Device Model"),
                        !.mac_address = extract_value(resp.body, "MAC Address"),
                        !.ip_address = extract_value(resp.body, "IP Address"),
                        !.firmware_version = extract_value(resp.body, "Firmware Version"),
                        !.hardware_version = extract_value(resp.body, "Hardware Version")])

\* a fetch that parses whatever body the device sent, whatever the status
fetch_poe_system_any_status(d, resp) ==
    IF resp.exc # NoException THEN Raise(d, resp.exc)
    ELSE LET Hit(e) == e.name = "pse_con_pwr" /\ e.value \in DigitDotTexts
             i == FirstIndex({n \in 1..Len(resp.body) : Hit(resp.body[n])}, 1)
         IN  IF i = 0 THEN Done(d)
             ELSE IF FloatRaises(resp.body[i].value) THEN Raise(d, "ValueError")
             ELSE Done([d EXCEPT !.poe_total_watts = FloatTenths(resp.body[i].value)])

fetch_poe_system(d, resp) ==
    IF TextException(resp) # NoException THEN Raise(d, TextException(resp))
    ELSE IF resp.status # 200 THEN Done(d)
    ELSE LET Hit(e) == e.name = "pse_con_pwr" /\ e.value \in DigitDotTexts
             i == FirstIndex({n \in 1..Len(resp.body) : Hit(resp.body[n])}, 1)
         IN  IF i = 0 THEN Done(d)
             ELSE IF FloatRaises(resp.body[i].value) THEN Raise(d, "ValueError")
             ELSE Done([d EXCEPT !.poe_total_watts = FloatTenths(resp.body[i].value)])

\* the loop with the port number read from the label's first digit only
RECURSIVE StatsLoop_first_digit(_, _)
StatsLoop_first_digit(ports, rows) ==
    IF rows = <<>> THEN ports
    ELSE LET row == Head(rows)
             port_id == IF row.port >= 10 THEN row.port \div 10 ELSE row.port
         IN  IF row.wf
             THEN StatsLoop_first_digit(
                      PortsPut(ports, port_id,
                               PortData(port_id, Strip(row.state), Strip(row.link),
                                        row.tx_good, row.tx_bad, row.rx_good, row.rx_bad)),
                      Tail(rows))
             ELSE StatsLoop_first_digit(ports, Tail(rows))

\* the loop over re.finditer: each matching row sets data.ports[port_id]
RECURSIVE StatsLoop(_, _)
StatsLoop(ports, rows) ==
    IF rows = <<>> THEN ports
    ELSE LET row == Head(rows)
         IN  IF row.wf
             THEN StatsLoop(PortsPut(ports, row.port,
                                     PortData(row.port, Strip(row.state), Strip(row.link),
                                              row.tx_good, row.tx_bad, row.rx_good,
                                              row.rx_bad)),
                            Tail(rows))
             ELSE StatsLoop(ports, Tail(rows))

fetch_port_stats(d, resp) ==
    IF TextException(resp) # NoException THEN Raise(d, TextException(resp))
    ELSE IF resp.status # 200 THEN Done(d)
    ELSE Done([d EXCEPT !.ports = StatsLoop(d.ports, resp.body)])

\* Port\s*{port_id}.*?{marker}.*?value="(\d+)"[^>]*selected, with re.DOTALL: the
\* first selected option after the first marker after the first matching label
SelectedAfter(html, port_id, marker) ==
    LET IsLabel(t) == t.kind = "label" /\ LabelMatches(port_id, t.port)
        IsMarker(t) == t.kind = "word" /\ t.value = marker
        IsSelected(t) == t.kind = "selected"
        i == FirstIndex({n \in 1..Len(html) : IsLabel(html[n])}, 1)
        j == IF i = 0 THEN 0 ELSE FirstIndex({n \in 1..Len(html) : IsMarker(html[n])}, i + 1)
        k == IF j = 0 THEN 0 ELSE FirstIndex({n \in 1..Len(html) : IsSelected(html[n])}, j + 1)
    IN  IF k = 0 THEN "" ELSE html[k].value

SettingsOf(port, html) ==
    LET speed == SelectedAfter(html, port.id, "speed_duplex")
        flow == SelectedAfter(html, port.id, "flow")
    IN  [port EXCEPT !.speed_duplex = IF speed # "" THEN speed ELSE @,
                     !.flow_control = IF flow # "" THEN flow ELSE @]

fetch_port_settings(d, resp) ==
    IF TextException(resp) # NoException THEN Raise(d, TextException(resp))
    ELSE IF resp.status # 200 THEN Done(d)
    ELSE Done([d EXCEPT !.ports = [p \in DOMAIN d.ports |-> SettingsOf(d.ports[p], resp.body)]])

\* Port\s*{port_id}.*?{word}, with re.IGNORECASE | re.DOTALL
WordAfterLabel(html, port_id, word) ==
    \E i \in 1..Len(html) : \E j \in (i + 1)..Len(html) :
        /\ html[i].kind = "label" /\ LabelMatches(port_id, html[i].port)
        /\ html[j].kind = "word" /\ Lower(html[j].value) = Lower(word)

PoeOf(port, html) ==
    IF WordAfterLabel(html, port.id, "Enable") THEN [port EXCEPT !.poe_enabled = TRUE]
    ELSE IF WordAfterLabel(html, port.id, "Disable") THEN [port EXCEPT !.poe_enabled = FALSE]
    ELSE port

fetch_poe_ports(d, resp) ==
    IF TextException(resp) # NoException THEN Raise(d, TextException(resp))
    ELSE IF resp.status # 200 THEN Done(d)
    ELSE Done([d EXCEPT !.ports = [p \in DOMAIN d.ports |-> PoeOf(d.ports[p], resp.body)]])

Contains(s, x) == \E i \in 1..Len(s) : s[i] = x

\* the loop with a record made for a row whose port the mapping lacks
RECURSIVE MacLoop_setdefault(_, _)
MacLoop_setdefault(ports, rows) ==
    IF rows = <<>> THEN ports
    ELSE LET row == Head(rows)
             mac_address == Upper(row.mac)
             port_num == row.port
             known == IF port_num \in DOMAIN ports THEN ports
                      ELSE PortsPut(ports, port_num, PortData(port_num, "", "", 0, 0, 0, 0))
         IN  IF row.wf /\ ~Contains(known[port_num].connected_macs, mac_address)
             THEN MacLoop_setdefault(
                      [known EXCEPT ![port_num].connected_macs = Append(@, mac_address)],
                      Tail(rows))
             ELSE MacLoop_setdefault(ports, Tail(rows))

\* the loop without the test that the address is not in the list yet
RECURSIVE MacLoop_append(_, _)
MacLoop_append(ports, rows) ==
    IF rows = <<>> THEN ports
    ELSE LET row == Head(rows)
             mac_address == Upper(row.mac)
             port_num == row.port
         IN  IF row.wf /\ port_num \in DOMAIN ports
             THEN MacLoop_append(
                      [ports EXCEPT ![port_num].connected_macs = Append(@, mac_address)],
                      Tail(rows))
             ELSE MacLoop_append(ports, Tail(rows))

\* the loop over the forwarding-table rows
RECURSIVE MacLoop(_, _)
MacLoop(ports, rows) ==
    IF rows = <<>> THEN ports
    ELSE LET row == Head(rows)
             mac_address == Upper(row.mac)
             port_num == row.port
         IN  IF row.wf /\ port_num \in DOMAIN ports
                       /\ ~Contains(ports[port_num].connected_macs, mac_address)
             THEN MacLoop([ports EXCEPT ![port_num].connected_macs = Append(@, mac_address)],
                          Tail(rows))
             ELSE MacLoop(ports, Tail(rows))

\* the part of _fetch_mac_table after the login
fetch_mac_table(d, resp) ==
    IF TextException(resp) # NoException THEN Raise(d, TextException(resp))
    ELSE IF resp.status # 200 THEN Done(d)
    ELSE Done([d EXCEPT !.ports = MacLoop(d.ports, resp.body)])


(***************************************************************************)
(* The client.                                                             *)
(***************************************************************************)
\* hashlib.md5(...).hexdigest(), as an ideal hash of its input
Md5(text) == "md5(" \o text \o ")"

generate_cookie(username, password) == Md5(username \o password)

\* host.rstrip("/") on a host given as its characters
RECURSIVE RStripSlash(_)
RStripSlash(host) ==
    IF host # <<>> /\ host[Len(host)] = "/" THEN RStripSlash(SubSeq(host, 1, Len(host) - 1))
    ELSE host

StartsWith(s, prefix) == Len(s) >= Len(prefix) /\ SubSeq(s, 1, Len(prefix)) = prefix

\* GoodtopApiClient.__init__
GoodtopApiClient(host, username, password) ==
    LET stripped == RStripSlash(host)
    IN  [host |-> IF StartsWith(stripped, <<"h", "t", "t", "p">>) THEN stripped
                  ELSE <<"h", "t", "t", "p", ":", "/", "/">> \o stripped,
         username |-> username,
         password |-> password,
         cookie |-> generate_cookie(username, password)]

\* the config entries the integration is set up from: host, username, password
ConfigEntries ==
    { [host |-> <<"s", "w", "/">>, username |-> "admin", password |-> "secret"] }

(***************************************************************************)
(* Requests, as a call's session sends them.                               *)
(***************************************************************************)
NoForm == <<>>

Request(method, path, form, kind) ==
    [method |-> method, path |-> path, form |-> form, kind |-> kind]

\* how a request ended at the transport level
Kind(resp) ==
    IF resp.exc # NoException THEN "error"
    ELSE IF resp.status # 200 THEN "status"
    ELSE "ok"

\* whether a 200 body holds what the page's patterns look for
Parsable(page, body) ==
    CASE page = "info" ->
            \E l \in {"Device Model", "MAC Address", "IP Address", "Firmware Version",
                      "Hardware Version"} : extract_value(body, l) # ""
      [] page = "poe_system" ->
            \E i \in 1..Len(body) :
                body[i].name = "pse_con_pwr" /\ ~FloatRaises(body[i].value)
      [] page = "settings" -> \E i \in 1..Len(body) : body[i].kind = "selected"
      [] page = "poe_ports" -> \E i \in 1..Len(body) : body[i].kind = "word"
      [] OTHER -> \E i \in 1..Len(body) : body[i].wf

\* the four outcomes of a page fetch
PageKind(page, resp) ==
    IF Kind(resp) # "ok" THEN Kind(resp)
    ELSE IF resp.decodable /\ Parsable(page, resp.body) THEN "ok"
    ELSE "unparsable"

\* what a call's request log keeps of an outcome: "ok" is HTTP 200 and, for a page,
\* a body its patterns parse
Logged(kind) == IF kind = "ok" THEN "ok" ELSE "failed"

NoCall == [op |-> "none", port_id |-> 0, enabled |-> FALSE, speed_duplex |-> "0",
           flow_control |-> "0"]

\* id names the ClientSession object: a new one is an object no open session is
NoSession == 0
ClosedSession == [open |-> FALSE, cookies |-> <<>>, id |-> NoSession]
NewSession ==
    CHOOSE id \in 1..(Cardinality(Tasks) + 1) :
        /\ \A t \in Tasks : session[t].id # id
        /\ \A other \in 1..(id - 1) : \E t \in Tasks : session[t].id = other

\* one ClientSession object made with the client and used by every call
ClientSession_shared(cookie) == [open |-> TRUE, cookies |-> <<"admin", cookie>>, id |-> 1]

\* aiohttp.ClientSession(cookies={"admin": self._cookie})
ClientSession(cookie) == [open |-> TRUE, cookies |-> <<"admin", cookie>>, id |-> NewSession]

(***************************************************************************)
(* get_data, one action per request.                                       *)
(***************************************************************************)
\* obj names the GoodtopData object each task's local data is bound to, and the one
\* the coordinator holds; GoodtopData() makes an object that no one holds yet
NoObject == 0
Holders == Tasks \cup {"coordinator"}
NewObject ==
    CHOOSE id \in 1..(Cardinality(Holders) + 1) :
        /\ \A h \in Holders : obj[h] # id
        /\ \A other \in 1..(id - 1) : \E h \in Holders : obj[h] = other

\* a client that keeps one snapshot and fills it again on every call
get_data_reuse(t) ==
    /\ pc[t] = "idle"
    /\ pc' = [pc EXCEPT ![t] = "info"]
    /\ call' = [call EXCEPT ![t] = [NoCall EXCEPT !.op = "get_data"]]
    /\ data' = [data EXCEPT ![t] = coordinator.data]
    /\ session' = [session EXCEPT ![t] = ClientSession(client.cookie)]
    /\ reqs' = [reqs EXCEPT ![t] = <<>>]
    /\ obj' = [obj EXCEPT ![t] = IF coordinator.loaded THEN obj["coordinator"] ELSE NewObject]
    /\ coordinator' = [coordinator EXCEPT !.refresh_requested = FALSE]
    /\ UNCHANGED <<client, fixture, result>>

get_data(t) ==
    /\ pc[t] = "idle"
    /\ pc' = [pc EXCEPT ![t] = "info"]
    /\ call' = [call EXCEPT ![t] = [NoCall EXCEPT !.op = "get_data"]]
    /\ data' = [data EXCEPT ![t] = GoodtopData]
    /\ session' = [session EXCEPT ![t] = ClientSession(client.cookie)]
    /\ reqs' = [reqs EXCEPT ![t] = <<>>]
    /\ obj' = [obj EXCEPT ![t] = NewObject]
    /\ coordinator' = [coordinator EXCEPT !.refresh_requested = FALSE]
    /\ UNCHANGED <<client, fixture, result>>

\* one try around all the fetches: the first exception ends them
FetchStep_abort(t, at, next, path, kind, r) ==
    /\ pc[t] = at
    /\ call[t].op = "get_data"
    /\ reqs' = [reqs EXCEPT ![t] = Append(@, Request("GET", path, NoForm, Logged(kind)))]
    /\ data' = [data EXCEPT ![t] = r.data]
    /\ pc' = [pc EXCEPT ![t] = IF r.exc = NoException THEN next ELSE "return"]
    /\ UNCHANGED <<client, fixture, obj, coordinator, call, result, session>>

\* one _fetch_* call: the GET, then the try body's result r, then the except clause
FetchStep(t, at, next, path, kind, r) ==
    /\ pc[t] = at
    /\ call[t].op = "get_data"
    /\ reqs' = [reqs EXCEPT ![t] = Append(@, Request("GET", path, NoForm, Logged(kind)))]
    /\ data' = [data EXCEPT ![t] = r.data]
    /\ IF r.exc = NoException \/ except_Exception(r.exc)
       THEN pc' = [pc EXCEPT ![t] = next] /\ UNCHANGED session
       ELSE pc' = [pc EXCEPT ![t] = "raised"]
            /\ session' = [session EXCEPT ![t] = ClosedSession]
    /\ UNCHANGED <<client, fixture, obj, coordinator, call, result>>

system_info(t, resp) ==
    FetchStep(t, "info", "poe_system", "/info.cgi", PageKind("info", resp),
             fetch_system_info(data[t], resp))

\* a get_data that goes from the PoE total straight to the port settings
poe_system_then_settings(t, resp) ==
    FetchStep(t, "poe_system", "settings", "/pse_system.cgi", PageKind("poe_system", resp),
              fetch_poe_system(data[t], resp))

poe_system(t, resp) ==
    FetchStep(t, "poe_system", "stats", "/pse_system.cgi", PageKind("poe_system", resp),
             fetch_poe_system(data[t], resp))

port_stats(t, resp) ==
    FetchStep(t, "stats", "settings", "/port.cgi?page=stats", PageKind("stats", resp),
             fetch_port_stats(data[t], resp))

port_settings(t, resp) ==
    FetchStep(t, "settings", "poe_ports", "/port.cgi", PageKind("settings", resp),
             fetch_port_settings(data[t], resp))

poe_ports(t, resp) ==
    FetchStep(t, "poe_ports", "mac_login", "/pse_port.cgi", PageKind("poe_ports", resp),
             fetch_poe_ports(data[t], resp))

\* a login that sends a hash of the password alone as its Response field
LoginForm_password_hash ==
    [f \in {"username", "password", "language", "Response"} |->
        CASE f = "username" -> client.username
          [] f = "password" -> client.password
          [] f = "language" -> "EN"
          [] OTHER -> Md5(client.password)]

LoginForm ==
    [f \in {"username", "password", "language", "Response"} |->
        CASE f = "username" -> client.username
          [] f = "password" -> client.password
          [] f = "language" -> "EN"
          [] OTHER -> client.cookie]

\* _login: the value it returns, and the exception that leaves it, if any
login(resp) ==
    IF resp.exc = NoException THEN [value |-> resp.status = 200, exc |-> NoException]
    ELSE IF except_Exception(resp.exc) THEN [value |-> FALSE, exc |-> NoException]
    ELSE [value |-> FALSE, exc |-> resp.exc]

\* the login that opens _fetch_mac_table, inside its try
mac_login(t, resp) ==
    /\ pc[t] = "mac_login"
    /\ reqs' = [reqs EXCEPT ![t] = Append(@, Request("POST", "/login.cgi", LoginForm, Logged(Kind(resp))))]
    /\ IF login(resp).exc = NoException
       THEN pc' = [pc EXCEPT ![t] = "mac_table"] /\ UNCHANGED session
       ELSE IF except_Exception(login(resp).exc)
       THEN pc' = [pc EXCEPT ![t] = "return"] /\ UNCHANGED session
       ELSE pc' = [pc EXCEPT ![t] = "raised"]
            /\ session' = [session EXCEPT ![t] = ClosedSession]
    /\ UNCHANGED <<client, fixture, obj, coordinator, call, data, result>>

mac_table(t, resp) ==
    FetchStep(t, "mac_table", "return", "/mac.cgi?page=fwd_tbl", PageKind("mac_table", resp),
             fetch_mac_table(data[t], resp))

\* get_data returns its snapshot to GoodtopCoordinator._async_update_data, and the
\* coordinator makes it its data; the first refresh creates the entities of its ports.
\* The call's locals end with it.
get_data_return(t) ==
    /\ pc[t] = "return"
    /\ call[t].op = "get_data"
    /\ session' = [session EXCEPT ![t] = ClosedSession]
    /\ coordinator' = [coordinator EXCEPT
                          !.data = data[t],
                          !.loaded = TRUE,
                          !.entities = IF coordinator.loaded THEN @ ELSE DOMAIN data[t].ports]
    /\ pc' = [pc EXCEPT ![t] = "idle"]
    /\ call' = [call EXCEPT ![t] = NoCall]
    /\ data' = [data EXCEPT ![t] = GoodtopData]
    /\ reqs' = [reqs EXCEPT ![t] = <<>>]
    /\ obj' = [obj EXCEPT !["coordinator"] = obj[t], ![t] = NoObject]
    /\ UNCHANGED <<client, fixture, result>>

(***************************************************************************)
(* The first refresh against a device that may answer each request in any  *)
(* way; mac_rows is the rows the forwarding-table page gave the poll.      *)
(***************************************************************************)
NoFixture == <<>>

\* office_switch.py is not running
Running == [done |-> FALSE, status |-> 0]
Exit(status) == [done |-> TRUE, status |-> status]
NoScript == [argv |-> <<>>, pc |-> "none", data |-> <<>>, sent |-> <<>>, stdout |-> <<>>,
             exit |-> Running]

\* what the device holds for each port as set by the action POSTs it has applied; ""
\* is a setting no POST has set yet
NoDevice == [p \in PortNumbers |-> [poe |-> "", state |-> ""]]

NoCoordinatorData ==
    [data |-> GoodtopData, loaded |-> FALSE, refresh_requested |-> FALSE, entities |-> {}]

InitFetch ==
    /\ client \in {GoodtopApiClient(e.host, e.username, e.password) : e \in ConfigEntries}
    /\ fixture = NoFixture
    /\ faults = {}
    /\ prev_faults = {}
    /\ stats_rows = <<>>
    /\ mac_rows = <<>>
    /\ device = NoDevice
    /\ script = NoScript
    /\ coordinator = NoCoordinatorData
    /\ obj = [h \in Holders |-> NoObject]
    /\ pc = [t \in Tasks |-> "idle"]
    /\ call = [t \in Tasks |-> NoCall]
    /\ data = [t \in Tasks |-> GoodtopData]
    /\ session = [t \in Tasks |-> ClosedSession]
    /\ reqs = [t \in Tasks |-> <<>>]
    /\ result = [t \in Tasks |-> FALSE]

\* the fault ledger belongs to the static-device specification
NoLedger == UNCHANGED <<faults, prev_faults, stats_rows, mac_rows, device, script>>

\* the port numbers of the rows a port-statistics response gives the client, in order
RowPorts(resp) ==
    IF resp.exc = NoException /\ resp.status = 200 /\ resp.decodable
    THEN LET WellFormed(row) == row.wf
             rows == SelectSeq(resp.body, WellFormed)
         IN  [i \in 1..Len(rows) |-> rows[i].port]
    ELSE <<>>


\* the rows the forwarding-table pattern finds in a response, in order
RowsMatched(resp) ==
    IF resp.exc = NoException /\ resp.status = 200 /\ resp.decodable
    THEN LET WellFormed(row) == row.wf
         IN  SelectSeq(resp.body, WellFormed)
    ELSE <<>>

NextFetch ==
    \/ ~coordinator.loaded /\ get_data("poll") /\ NoLedger
    \/ \E resp \in Responses(InfoBodies) : system_info("poll", resp) /\ NoLedger
    \/ \E resp \in Responses(PoeSystemBodies) : poe_system("poll", resp) /\ NoLedger
    \/ \E resp \in Responses(StatsBodies) :
            /\ port_stats("poll", resp)
            /\ stats_rows' = RowPorts(resp)
            /\ UNCHANGED <<faults, prev_faults, mac_rows, device, script>>
    \/ \E resp \in Responses(SettingsBodies) : port_settings("poll", resp) /\ NoLedger
    \/ \E resp \in Responses(PoePortsBodies) : poe_ports("poll", resp) /\ NoLedger
    \/ \E resp \in PostResponses : mac_login("poll", resp) /\ NoLedger
    \/ \E resp \in Responses(MacBodies) :
            /\ mac_table("poll", resp)
            /\ mac_rows' = RowsMatched(resp)
            /\ UNCHANGED <<faults, prev_faults, stats_rows, device, script>>
    \/ /\ get_data_return("poll")
       /\ stats_rows' = <<>>
       /\ mac_rows' = <<>>
       /\ UNCHANGED <<faults, prev_faults, device, script>>

SpecFetch == InitFetch /\ [][NextFetch]_vars


(***************************************************************************)
(* set_poe and set_port_state, one action per request.                     *)
(***************************************************************************)
\* the form with the caller's port number sent as it is
PoeForm_caller_port(port_id, enabled) ==
    [f \in {"portid", "state", "submit", "cmd", "language"} |->
        CASE f = "portid" -> Str(port_id)
          [] f = "state" -> IF enabled THEN "1" ELSE "0"
          [] f = "submit" -> "apply"
          [] f = "cmd" -> "poe"
          [] OTHER -> "EN"]

PoeForm(port_id, enabled) ==
    LET switch_port_id == port_id - 1
    IN  [f \in {"portid", "state", "submit", "cmd", "language"} |->
            CASE f = "portid" -> Str(switch_port_id)
              [] f = "state" -> IF enabled THEN "1" ELSE "0"
              [] f = "submit" -> "apply"
              [] f = "cmd" -> "poe"
              [] OTHER -> "EN"]

PortForm(port_id, enabled, speed_duplex, flow_control) ==
    LET switch_port_id == port_id - 1
    IN  [f \in {"portid", "state", "speed_duplex", "flow", "submit", "cmd"} |->
            CASE f = "portid" -> Str(switch_port_id)
              [] f = "state" -> IF enabled THEN "1" ELSE "0"
              [] f = "speed_duplex" -> speed_duplex
              [] f = "flow" -> flow_control
              [] f = "submit" -> "+++Apply+++"
              [] OTHER -> "port"]

SaveForm == [f \in {"language", "cmd"} |-> IF f = "language" THEN "EN" ELSE "save"]

\* a client that lets one mutation run at a time: a call waits for the other to end
StartMutation_serialized(t, c) ==
    /\ pc[t] = "idle"
    /\ \A u \in Tasks \ {t} : pc[u] = "idle"
    /\ pc' = [pc EXCEPT ![t] = "login"]
    /\ call' = [call EXCEPT ![t] = c]
    /\ session' = [session EXCEPT ![t] = ClientSession(client.cookie)]
    /\ reqs' = [reqs EXCEPT ![t] = <<>>]
    /\ UNCHANGED <<client, fixture, obj, coordinator, data, result>>

\* a mutation opens its session and goes to its login
StartMutation(t, c) ==
    /\ pc[t] = "idle"
    /\ pc' = [pc EXCEPT ![t] = "login"]
    /\ call' = [call EXCEPT ![t] = c]
    /\ session' = [session EXCEPT ![t] = ClientSession(client.cookie)]
    /\ reqs' = [reqs EXCEPT ![t] = <<>>]
    /\ UNCHANGED <<client, fixture, obj, coordinator, data, result>>

set_poe(t, port_id, enabled) ==
    StartMutation(t, [NoCall EXCEPT !.op = "set_poe", !.port_id = port_id,
                                    !.enabled = enabled])

set_port_state(t, port_id, enabled, speed_duplex, flow_control) ==
    StartMutation(t, [op |-> "set_port_state", port_id |-> port_id, enabled |-> enabled,
                      speed_duplex |-> speed_duplex, flow_control |-> flow_control])

\* GoodtopPoeSwitch.async_turn_on / async_turn_off, up to the call of set_poe
poe_switch_turn(t, port_id, on) ==
    /\ coordinator.loaded
    /\ port_id \in coordinator.entities
    /\ set_poe(t, port_id, on)

\* a port switch that sends the default codes whatever the snapshot holds
port_switch_turn_reset(t, port_id, on) ==
    /\ coordinator.loaded
    /\ port_id \in coordinator.entities
    /\ set_port_state(t, port_id, on, "0", "0")

\* GoodtopPortSwitch.async_turn_on / async_turn_off, up to the call of set_port_state
port_switch_turn(t, port_id, on) ==
    /\ coordinator.loaded
    /\ port_id \in coordinator.entities
    /\ LET ports == coordinator.data.ports
           speed_duplex == IF port_id \in DOMAIN ports THEN ports[port_id].speed_duplex ELSE "0"
           flow_control == IF port_id \in DOMAIN ports THEN ports[port_id].flow_control ELSE "0"
       IN  set_port_state(t, port_id, on, speed_duplex, flow_control)

\* a return that leaves the call's session open
ReturnValue_leak(t, value) ==
    /\ pc' = [pc EXCEPT ![t] = "returned"]
    /\ result' = [result EXCEPT ![t] = value]
    /\ UNCHANGED session

\* the mutation returns value: the session closes and the caller gets the value
ReturnValue(t, value) ==
    /\ pc' = [pc EXCEPT ![t] = "returned"]
    /\ result' = [result EXCEPT ![t] = value]
    /\ session' = [session EXCEPT ![t] = ClosedSession]

\* a mutation that gives up when its login fails
mutation_login_fatal(t, resp) ==
    /\ pc[t] = "login"
    /\ reqs' = [reqs EXCEPT ![t] = Append(@, Request("POST", "/login.cgi", LoginForm,
                                                     Logged(Kind(resp))))]
    /\ IF login(resp).value
       THEN pc' = [pc EXCEPT ![t] = "action"] /\ UNCHANGED <<session, result>>
       ELSE ReturnValue(t, FALSE)
    /\ UNCHANGED <<client, fixture, obj, coordinator, call, data>>

\* await self._login(session) in a mutation: the value is dropped
mutation_login(t, resp) ==
    /\ pc[t] = "login"
    /\ reqs' = [reqs EXCEPT ![t] = Append(@, Request("POST", "/login.cgi", LoginForm,
                                                     Logged(Kind(resp))))]
    /\ IF login(resp).exc = NoException
       THEN pc' = [pc EXCEPT ![t] = "action"] /\ UNCHANGED <<session, result>>
       ELSE IF except_Exception(login(resp).exc) THEN ReturnValue(t, FALSE)
       ELSE pc' = [pc EXCEPT ![t] = "raised"] /\ UNCHANGED result
            /\ session' = [session EXCEPT ![t] = ClosedSession]
    /\ UNCHANGED <<client, fixture, obj, coordinator, call, data>>

ActionPath(c) == IF c.op = "set_poe" THEN "/pse_port.cgi" ELSE "/port.cgi"

ActionForm(c) ==
    IF c.op = "set_poe" THEN PoeForm(c.port_id, c.enabled)
    ELSE PortForm(c.port_id, c.enabled, c.speed_duplex, c.flow_control)

\* an action POST that is sent once more when its first attempt fails
action_post_retry(t, resp) ==
    /\ pc[t] = "action"
    /\ reqs' = [reqs EXCEPT ![t] = Append(@, Request("POST", ActionPath(call[t]),
                                                     ActionForm(call[t]), Logged(Kind(resp))))]
    /\ IF TextException(resp) = NoException /\ resp.status = 200
       THEN pc' = [pc EXCEPT ![t] = "save"] /\ UNCHANGED <<session, result>>
       ELSE IF Len(reqs[t]) < 2 THEN UNCHANGED <<pc, session, result>>
       ELSE ReturnValue(t, FALSE)
    /\ UNCHANGED <<client, fixture, obj, coordinator, call, data>>

\* the action POST: response.text() is read for the log line before the status is tested
action_post(t, resp) ==
    /\ pc[t] = "action"
    /\ reqs' = [reqs EXCEPT ![t] = Append(@, Request("POST", ActionPath(call[t]),
                                                     ActionForm(call[t]), Logged(Kind(resp))))]
    /\ IF TextException(resp) # NoException
       THEN IF except_Exception(TextException(resp)) THEN ReturnValue(t, FALSE)
            ELSE pc' = [pc EXCEPT ![t] = "raised"] /\ UNCHANGED result
                 /\ session' = [session EXCEPT ![t] = ClosedSession]
       ELSE IF resp.status = 200
            THEN pc' = [pc EXCEPT ![t] = "save"] /\ UNCHANGED <<session, result>>
            ELSE ReturnValue(t, FALSE)
    /\ UNCHANGED <<client, fixture, obj, coordinator, call, data>>

\* _save_settings: the value it returns, and the exception that leaves it, if any
save_settings(resp) ==
    IF resp.exc = NoException THEN [value |-> resp.status = 200, exc |-> NoException]
    ELSE IF except_Exception(resp.exc) THEN [value |-> FALSE, exc |-> NoException]
    ELSE [value |-> FALSE, exc |-> resp.exc]

\* a mutation that writes the requested state into the coordinator's snapshot
save_post_optimistic(t, resp) ==
    /\ pc[t] = "save"
    /\ reqs' = [reqs EXCEPT ![t] = Append(@, Request("POST", "/save.cgi", SaveForm,
                                                     Logged(Kind(resp))))]
    /\ ReturnValue(t, TRUE)
    /\ coordinator' =
          IF call[t].port_id \in DOMAIN coordinator.data.ports
          THEN IF call[t].op = "set_poe"
               THEN [coordinator EXCEPT !.data.ports[call[t].port_id].poe_enabled =
                                            call[t].enabled]
               ELSE [coordinator EXCEPT !.data.ports[call[t].port_id].state =
                                            IF call[t].enabled THEN "Enable" ELSE "Disable"]
          ELSE coordinator
    /\ UNCHANGED <<client, fixture, obj, call, data>>

\* await self._save_settings(session), then return True
save_post(t, resp) ==
    /\ pc[t] = "save"
    /\ reqs' = [reqs EXCEPT ![t] = Append(@, Request("POST", "/save.cgi", SaveForm,
                                                     Logged(Kind(resp))))]
    /\ IF save_settings(resp).exc = NoException THEN ReturnValue(t, TRUE)
       ELSE IF except_Exception(save_settings(resp).exc) THEN ReturnValue(t, FALSE)
       ELSE pc' = [pc EXCEPT ![t] = "raised"] /\ UNCHANGED result
            /\ session' = [session EXCEPT ![t] = ClosedSession]
    /\ UNCHANGED <<client, fixture, obj, coordinator, call, data>>

\* an entity that asks for a refresh whatever the call gave
switch_turned_always(t) ==
    /\ pc[t] = "returned"
    /\ pc' = [pc EXCEPT ![t] = "idle"]
    /\ coordinator' = [coordinator EXCEPT !.refresh_requested = TRUE]
    /\ call' = [call EXCEPT ![t] = NoCall]
    /\ reqs' = [reqs EXCEPT ![t] = <<>>]
    /\ result' = [result EXCEPT ![t] = FALSE]
    /\ UNCHANGED <<client, fixture, obj, data, session>>

\* back in async_turn_on / async_turn_off: a refresh is requested when the call gave
\* True. The call's locals end with it.
switch_turned(t) ==
    /\ pc[t] = "returned"
    /\ pc' = [pc EXCEPT ![t] = "idle"]
    /\ coordinator' = [coordinator EXCEPT !.refresh_requested = @ \/ result[t]]
    /\ call' = [call EXCEPT ![t] = NoCall]
    /\ reqs' = [reqs EXCEPT ![t] = <<>>]
    /\ result' = [result EXCEPT ![t] = FALSE]
    /\ UNCHANGED <<client, fixture, obj, data, session>>


(***************************************************************************)
(* The integration against a device whose pages do not change: the         *)
(* coordinator polls, the switch entities mutate, one call at a time. The  *)
(* network may fail up to MaxFaults requests of a poll; faults is the set  *)
(* of pages it failed in the running poll, prev_faults in the poll whose   *)
(* snapshot the coordinator holds; stats_rows is the port numbers of the   *)
(* rows the statistics page gave the running poll.                         *)
(***************************************************************************)
StaticFixtures ==
    [ info : { <<InfoRow("Device Model", "ZX-SWTG218"),
                 InfoRow("MAC Address", "00:E2:69:73:71:3A")>> },
      poe_system : { <<InputElement("pse_con_pwr", "12.5")>>,
                     <<InputElement("pse_con_pwr", "1.2.3")>> },
      stats : { <<StatsRow(TRUE, 1, "Enable", "1000M", 120, 0, 98, 1),
                  StatsRow(TRUE, 12, "Enable", "1000M", 120, 0, 98, 1)>>,
                <<StatsRow(TRUE, 1, "Enable", "1000M", 120, 0, 98, 1),
                  StatsRow(TRUE, 1, " Disable ", "Down", 0, 0, 0, 0)>> },
      settings : { <<Label(1), Word("speed_duplex"), Option("5", TRUE)>> },
      poe_ports : { <<Label(12), Word("Enable")>>, <<Label(1), Word("Disable")>> },
      mac_table : { <<MacRow(TRUE, "00:e2:69:73:71:3a", 1), MacRow(TRUE, "00:E2:69:73:71:3A", 1)>>,
                    <<MacRow(TRUE, "AA:BB:CC:DD:EE:FF", 12),
                      MacRow(TRUE, "00:e2:69:73:71:3a", 1)>> } ]

Init ==
    /\ client \in {GoodtopApiClient(e.host, e.username, e.password) : e \in ConfigEntries}
    /\ fixture \in StaticFixtures
    /\ faults = {}
    /\ prev_faults = {}
    /\ stats_rows = <<>>
    /\ mac_rows = <<>>
    /\ device = NoDevice
    /\ script = NoScript
    /\ coordinator = NoCoordinatorData
    /\ obj = [h \in Holders |-> NoObject]
    /\ pc = [t \in Tasks |-> "idle"]
    /\ call = [t \in Tasks |-> NoCall]
    /\ data = [t \in Tasks |-> GoodtopData]
    /\ session = [t \in Tasks |-> ClosedSession]
    /\ reqs = [t \in Tasks |-> <<>>]
    /\ result = [t \in Tasks |-> FALSE]

\* the device's answer to a request for page
Reply(page) == Http(200, TRUE, IF page = "login" THEN <<>> ELSE fixture[page])

FaultResponses ==
    {Failure(e) : e \in TransportExceptions} \cup {Http(500, TRUE, <<>>)}

Served(page) ==
    {Reply(page)} \cup (IF Cardinality(faults) < MaxFaults THEN FaultResponses ELSE {})

Charge(page, resp) ==
    /\ faults' = IF resp = Reply(page) THEN faults ELSE faults \cup {page}
    /\ stats_rows' = IF page = "stats" THEN RowPorts(resp) ELSE stats_rows
    /\ UNCHANGED <<prev_faults, mac_rows, device, script>>

\* the poll's snapshot is now the coordinator's: its faults become the previous ones
Turnover ==
    /\ prev_faults' = faults
    /\ faults' = {}
    /\ stats_rows' = <<>>
    /\ UNCHANGED <<mac_rows, device, script>>

\* no call is in progress
Quiet == \A t \in Tasks : pc[t] = "idle"

Next ==
    \/ Quiet /\ get_data("poll") /\ NoLedger
    \/ \E resp \in Served("info") : system_info("poll", resp) /\ Charge("info", resp)
    \/ \E resp \in Served("poe_system") :
            poe_system("poll", resp) /\ Charge("poe_system", resp)
    \/ \E resp \in Served("stats") : port_stats("poll", resp) /\ Charge("stats", resp)
    \/ \E resp \in Served("settings") :
            port_settings("poll", resp) /\ Charge("settings", resp)
    \/ \E resp \in Served("poe_ports") : poe_ports("poll", resp) /\ Charge("poe_ports", resp)
    \/ \E resp \in Served("login") : mac_login("poll", resp) /\ Charge("login", resp)
    \/ \E resp \in Served("mac_table") : mac_table("poll", resp) /\ Charge("mac_table", resp)
    \/ get_data_return("poll") /\ Turnover
    \/ \E p \in PortNumbers, on \in BOOLEAN :
            Quiet /\ poe_switch_turn("service", p, on) /\ NoLedger
    \/ \E p \in PortNumbers, on \in BOOLEAN :
            Quiet /\ port_switch_turn("service", p, on) /\ NoLedger
    \/ \E resp \in PostResponses : mutation_login("service", resp) /\ NoLedger
    \/ \E resp \in PostResponses : action_post("service", resp) /\ NoLedger
    \/ \E resp \in PostResponses : save_post("service", resp) /\ NoLedger
    \/ switch_turned("service") /\ NoLedger

Spec == Init /\ [][Next]_vars

(***************************************************************************)
(* The integration set up from any of several config entries, against a    *)
(* device that answers every page of a poll: what the client is built as,  *)
(* and what its calls send.                                                *)
(***************************************************************************)
Chars(text) ==
    CASE text = "sw" -> <<"s", "w">>
      [] text = "sw//" -> <<"s", "w", "/", "/">>
      [] text = "http://sw/" -> <<"h", "t", "t", "p", ":", "/", "/", "s", "w", "/">>
      [] text = "https://sw" -> <<"h", "t", "t", "p", "s", ":", "/", "/", "s", "w">>
      [] text = "httpsw" -> <<"h", "t", "t", "p", "s", "w">>
      [] text = "http://" -> <<"h", "t", "t", "p", ":", "/", "/">>
      [] OTHER -> <<>>

\* hosts as entered in the config flow
SetupHosts == {Chars(h) : h \in {"sw", "sw//", "http://sw/", "https://sw", "httpsw"}}

SetupEntries ==
    [host : SetupHosts, username : {"admin", "root"}, password : {"secret", ""}]

ClientFixture ==
    [info |-> <<InfoRow("Device Model", "ZX-SWTG218"),
                InfoRow("MAC Address", "00:E2:69:73:71:3A")>>,
     poe_system |-> <<InputElement("pse_con_pwr", "12.5")>>,
     stats |-> <<StatsRow(TRUE, 1, "Enable", "1000M", 120, 0, 98, 1),
                 StatsRow(TRUE, 12, "Enable", "1000M", 120, 0, 98, 1)>>,
     settings |-> <<Label(1), Word("speed_duplex"), Option("5", TRUE)>>,
     poe_ports |-> <<Label(12), Word("Enable")>>,
     mac_table |-> <<MacRow(TRUE, "AA:BB:CC:DD:EE:FF", 12),
                     MacRow(TRUE, "00:e2:69:73:71:3a", 1)>>]

InitClient ==
    /\ client \in {GoodtopApiClient(e.host, e.username, e.password) : e \in SetupEntries}
    /\ fixture = ClientFixture
    /\ faults = {}
    /\ prev_faults = {}
    /\ stats_rows = <<>>
    /\ mac_rows = <<>>
    /\ device = NoDevice
    /\ script = NoScript
    /\ coordinator = NoCoordinatorData
    /\ obj = [h \in Holders |-> NoObject]
    /\ pc = [t \in Tasks |-> "idle"]
    /\ call = [t \in Tasks |-> NoCall]
    /\ data = [t \in Tasks |-> GoodtopData]
    /\ session = [t \in Tasks |-> ClosedSession]
    /\ reqs = [t \in Tasks |-> <<>>]
    /\ result = [t \in Tasks |-> FALSE]

NextClient ==
    \/ Quiet /\ get_data("poll") /\ NoLedger
    \/ system_info("poll", Reply("info")) /\ Charge("info", Reply("info"))
    \/ poe_system("poll", Reply("poe_system")) /\ Charge("poe_system", Reply("poe_system"))
    \/ port_stats("poll", Reply("stats")) /\ Charge("stats", Reply("stats"))
    \/ port_settings("poll", Reply("settings")) /\ Charge("settings", Reply("settings"))
    \/ poe_ports("poll", Reply("poe_ports")) /\ Charge("poe_ports", Reply("poe_ports"))
    \/ \E resp \in PostResponses : mac_login("poll", resp) /\ NoLedger
    \/ mac_table("poll", Reply("mac_table")) /\ Charge("mac_table", Reply("mac_table"))
    \/ get_data_return("poll") /\ Turnover
    \/ \E p \in PortNumbers, on \in BOOLEAN :
            Quiet /\ poe_switch_turn("service", p, on) /\ NoLedger
    \/ \E p \in PortNumbers, on \in BOOLEAN :
            Quiet /\ port_switch_turn("service", p, on) /\ NoLedger
    \/ \E resp \in PostResponses : mutation_login("service", resp) /\ NoLedger
    \/ \E resp \in PostResponses : action_post("service", resp) /\ NoLedger
    \/ \E resp \in PostResponses : save_post("service", resp) /\ NoLedger
    \/ switch_turned("service") /\ NoLedger

SpecClient == InitClient /\ [][NextClient]_vars

(***************************************************************************)
(* Calls that overlap on one client: a poll, which the network may fail,   *)
(* while the other task runs a get_data of its own or a mutation. The      *)
(* device's pages do not change.                                           *)
(***************************************************************************)
InitConcurrent ==
    /\ client \in {GoodtopApiClient(e.host, e.username, e.password) : e \in ConfigEntries}
    /\ fixture = ClientFixture
    /\ faults = {}
    /\ prev_faults = {}
    /\ stats_rows = <<>>
    /\ mac_rows = <<>>
    /\ device = NoDevice
    /\ script = NoScript
    /\ coordinator = NoCoordinatorData
    /\ obj = [h \in Holders |-> NoObject]
    /\ pc = [t \in Tasks |-> "idle"]
    /\ call = [t \in Tasks |-> NoCall]
    /\ data = [t \in Tasks |-> GoodtopData]
    /\ session = [t \in Tasks |-> ClosedSession]
    /\ reqs = [t \in Tasks |-> <<>>]
    /\ result = [t \in Tasks |-> FALSE]

NextConcurrent ==
    \/ \E t \in Tasks : get_data(t) /\ NoLedger
    \/ \E resp \in Served("info") : system_info("poll", resp) /\ Charge("info", resp)
    \/ poe_system("poll", Reply("poe_system")) /\ Charge("poe_system", Reply("poe_system"))
    \/ port_stats("poll", Reply("stats")) /\ Charge("stats", Reply("stats"))
    \/ port_settings("poll", Reply("settings")) /\ Charge("settings", Reply("settings"))
    \/ poe_ports("poll", Reply("poe_ports")) /\ Charge("poe_ports", Reply("poe_ports"))
    \/ mac_login("poll", Reply("login")) /\ Charge("login", Reply("login"))
    \/ \E resp \in Served("mac_table") : mac_table("poll", resp) /\ Charge("mac_table", resp)
    \/ get_data_return("poll") /\ Turnover
    \/ system_info("service", Reply("info")) /\ NoLedger
    \/ poe_system("service", Reply("poe_system")) /\ NoLedger
    \/ port_stats("service", Reply("stats")) /\ NoLedger
    \/ port_settings("service", Reply("settings")) /\ NoLedger
    \/ poe_ports("service", Reply("poe_ports")) /\ NoLedger
    \/ mac_login("service", Reply("login")) /\ NoLedger
    \/ mac_table("service", Reply("mac_table")) /\ NoLedger
    \/ get_data_return("service") /\ NoLedger
    \/ \E on \in BOOLEAN : poe_switch_turn("service", 1, on) /\ NoLedger
    \/ \E on \in BOOLEAN : port_switch_turn("service", 1, on) /\ NoLedger
    \/ mutation_login("service", Reply("login")) /\ NoLedger
    \/ \E resp \in PostResponses : action_post("service", resp) /\ NoLedger
    \/ save_post("service", Reply("login")) /\ NoLedger
    \/ switch_turned("service") /\ NoLedger

SpecConcurrent == InitConcurrent /\ [][NextConcurrent]_vars

(***************************************************************************)
(* Mutations of one port that overlap, and the device they reach. The      *)
(* device applies an action POST it answers with 200, applies none it      *)
(* answers with another status, and may or may not have applied one whose  *)
(* exchange broke.                                                         *)
(***************************************************************************)
\* the device after it has applied the action POST carrying form
Applied(form) ==
    LET p == CHOOSE q \in PortNumbers : Str(q - 1) = form["portid"]
    IN  IF form["cmd"] = "poe" THEN [device EXCEPT ![p].poe = form["state"]]
        ELSE [device EXCEPT ![p].state = form["state"]]

Deliver(t, resp) ==
    /\ device' \in IF resp.exc # NoException THEN {device, Applied(ActionForm(call[t]))}
                   ELSE IF resp.status = 200 THEN {Applied(ActionForm(call[t]))}
                   ELSE {device}
    /\ UNCHANGED <<faults, prev_faults, stats_rows, mac_rows, script>>

InitOverlap ==
    /\ client \in {GoodtopApiClient(e.host, e.username, e.password) : e \in ConfigEntries}
    /\ fixture = ClientFixture
    /\ faults = {}
    /\ prev_faults = {}
    /\ stats_rows = <<>>
    /\ mac_rows = <<>>
    /\ device = NoDevice
    /\ script = NoScript
    /\ coordinator = NoCoordinatorData
    /\ obj = [h \in Holders |-> NoObject]
    /\ pc = [t \in Tasks |-> "idle"]
    /\ call = [t \in Tasks |-> NoCall]
    /\ data = [t \in Tasks |-> GoodtopData]
    /\ session = [t \in Tasks |-> ClosedSession]
    /\ reqs = [t \in Tasks |-> <<>>]
    /\ result = [t \in Tasks |-> FALSE]

NextOverlap ==
    \/ \E t \in Tasks, on \in BOOLEAN : set_poe(t, 1, on) /\ NoLedger
    \/ \E t \in Tasks, on \in BOOLEAN : set_port_state(t, 1, on, "0", "0") /\ NoLedger
    \/ \E t \in Tasks : mutation_login(t, Reply("login")) /\ NoLedger
    \/ \E t \in Tasks, resp \in PostResponses : action_post(t, resp) /\ Deliver(t, resp)
    \/ \E t \in Tasks : save_post(t, Reply("login")) /\ NoLedger
    \/ \E t \in Tasks : switch_turned(t) /\ NoLedger

SpecOverlap == InitOverlap /\ [][NextOverlap]_vars

(***************************************************************************)
(* office_switch.py, one run of the script: argv is sys.argv, sent the     *)
(* requests it made, stdout what it printed, exit how the process ended.   *)
(***************************************************************************)
RequestExceptions == {"ConnectionError", "Timeout"}

\* what requests gives for a request whose 200 bodies are Bodies; r.text never raises
ScriptResponses(Bodies) ==
    {[exc |-> NoException, status |-> 200, body |-> b] : b \in Bodies}
        \cup {[exc |-> NoException, status |-> 500, body |-> <<>>]}
        \cup {[exc |-> e, status |-> 0, body |-> <<>>] : e \in RequestExceptions}

Argvs ==
    { <<"office_switch.py">>,
      <<"office_switch.py", "status">>,
      <<"office_switch.py", "help">>,
      <<"office_switch.py", "1", "0">>,
      <<"office_switch.py", "8", "1">> }

\* print(json.dumps(object)) and print(text)
Json(object) == [kind |-> "json", value |-> object]
Text(line) == [kind |-> "text", value |-> line]

ScriptOnly ==
    UNCHANGED <<client, fixture, faults, prev_faults, stats_rows, mac_rows, device, coordinator, obj,
                pc, call, data, session, reqs, result>>

\* one request of the script, as its log keeps it
Sent(method, path, resp) ==
    [method |-> method, path |-> path,
     kind |-> IF resp.exc # NoException THEN "error"
              ELSE IF resp.status # 200 THEN "status" ELSE "ok"]

\* the script prints line and the process ends with status
Ends(sc, line, status) ==
    [sc EXCEPT !.stdout = Append(@, line), !.exit = Exit(status), !.pc = "done"]

\* if __name__ == "__main__"
office_main ==
    /\ script.pc = "main"
    /\ script' =
          IF Len(script.argv) = 3 \/ (Len(script.argv) = 2 /\ script.argv[2] = "status")
          THEN [script EXCEPT !.pc = "login"]
          ELSE [script EXCEPT !.stdout = @ \o <<Text("Usage:"),
                                                 Text("  office_switch.py <port> <0|1>"),
                                                 Text("  office_switch.py status")>>,
                              !.exit = Exit(0), !.pc = "done"]
    /\ ScriptOnly

login_session(resp) ==
    /\ script.pc = "login"
    /\ LET sc == [script EXCEPT !.sent = Append(@, Sent("POST", "/login.cgi", resp))]
       IN  script' =
             IF resp.exc \in RequestExceptions
             THEN Ends(sc, Json([error |-> "Login failed"]), 1)
             ELSE IF Len(script.argv) = 3 THEN [sc EXCEPT !.pc = "set_poe"]
             ELSE [sc EXCEPT !.pc = "pse_system", !.data = [ports |-> <<>>]]
    /\ ScriptOnly

office_set_poe(resp) ==
    /\ script.pc = "set_poe"
    /\ LET sc == [script EXCEPT !.sent = Append(@, Sent("POST", "/pse_port.cgi", resp))]
       IN  script' =
             IF resp.exc \in RequestExceptions
             THEN Ends(sc, Json([error |-> "PoE set failed"]), 1)
             ELSE Ends(sc, Text("PoE port set"), 0)
    /\ ScriptOnly

\* get_status leaves its try block with the error object
StatusError(sc) == [sc EXCEPT !.data = [error |-> "Connection error"], !.pc = "print"]

get_status_pse_system(resp) ==
    /\ script.pc = "pse_system"
    /\ LET sc == [script EXCEPT !.sent = Append(@, Sent("GET", "/pse_system.cgi", resp))]
           Hit(e) == e.name = "pse_con_pwr" /\ e.value \in DigitDotTexts
           m == FirstIndex({n \in 1..Len(resp.body) : Hit(resp.body[n])}, 1)
       IN  script' =
             IF resp.exc \in RequestExceptions THEN StatusError(sc)
             ELSE IF m = 0
             THEN [sc EXCEPT !.data = ("poe_total_watts" :> 0) @@ @, !.pc = "pse_port"]
             ELSE IF FloatRaises(resp.body[m].value)
             THEN [sc EXCEPT !.exit = Exit(1), !.pc = "done"]
             ELSE [sc EXCEPT !.data = ("poe_total_watts" :> FloatTenths(resp.body[m].value)) @@ @,
                             !.pc = "pse_port"]
    /\ ScriptOnly

get_status_pse_port(resp) ==
    /\ script.pc = "pse_port"
    /\ LET sc == [script EXCEPT !.sent = Append(@, Sent("GET", "/pse_port.cgi", resp))]
       IN  script' = IF resp.exc \in RequestExceptions THEN StatusError(sc)
                     ELSE [sc EXCEPT !.pc = "stats"]
    /\ ScriptOnly

\* the dict appended for each row re.findall gives
StatusRow(row) ==
    [id |-> row.port, state |-> row.state, link |-> row.link, tx_good |-> row.tx_good,
     tx_bad |-> row.tx_bad, rx_good |-> row.rx_good, rx_bad |-> row.rx_bad]

get_status_stats(resp) ==
    /\ script.pc = "stats"
    /\ LET sc == [script EXCEPT !.sent = Append(@, Sent("GET", "/port.cgi?page=stats", resp))]
           WellFormed(row) == row.wf
           rows == SelectSeq(resp.body, WellFormed)
       IN  script' =
             IF resp.exc \in RequestExceptions THEN StatusError(sc)
             ELSE [sc EXCEPT !.data.ports = [i \in 1..Len(rows) |-> StatusRow(rows[i])],
                             !.pc = "print"]
    /\ ScriptOnly

\* result = get_status(); print(json.dumps(result)), and the script runs off its end
print_status ==
    /\ script.pc = "print"
    /\ script' = Ends(script, Json(script.data), 0)
    /\ ScriptOnly

InitScript ==
    /\ client \in {GoodtopApiClient(e.host, e.username, e.password) : e \in ConfigEntries}
    /\ fixture = NoFixture
    /\ faults = {}
    /\ prev_faults = {}
    /\ stats_rows = <<>>
    /\ mac_rows = <<>>
    /\ device = NoDevice
    /\ script \in {[NoScript EXCEPT !.argv = a, !.pc = "main"] : a \in Argvs}
    /\ coordinator = NoCoordinatorData
    /\ obj = [h \in Holders |-> NoObject]
    /\ pc = [t \in Tasks |-> "idle"]
    /\ call = [t \in Tasks |-> NoCall]
    /\ data = [t \in Tasks |-> GoodtopData]
    /\ session = [t \in Tasks |-> ClosedSession]
    /\ reqs = [t \in Tasks |-> <<>>]
    /\ result = [t \in Tasks |-> FALSE]

NextScript ==
    \/ office_main
    \/ \E resp \in ScriptResponses({<<>>}) : login_session(resp)
    \/ \E resp \in ScriptResponses({<<>>}) : office_set_poe(resp)
    \/ \E resp \in ScriptResponses(PoeSystemBodies) : get_status_pse_system(resp)
    \/ \E resp \in ScriptResponses(PoePortsBodies) : get_status_pse_port(resp)
    \/ \E resp \in ScriptResponses(StatsBodies) : get_status_stats(resp)
    \/ print_status

SpecScript == InitScript /\ [][NextScript]_vars


(***************************************************************************)
(* Properties.                                                             *)
(***************************************************************************)
Range(seq) == {seq[i] : i \in 1..Len(seq)}

\* the running poll's snapshot, request log and position
PollData == data["poll"]
PollReqs == reqs["poll"]
AfterStats == {"settings", "poe_ports", "mac_login", "mac_table", "return"}

AllRequestsFailed == \A i \in 1..Len(PollReqs) : PollReqs[i].kind = "failed"

\* C1: get_data never lets an exception out and always gets to its return, having sent
\* all seven requests whatever each one's outcome was; when every request failed, the
\* snapshot it returns is the all-default one.
C1_GetDataAlwaysReturns ==
    /\ pc["poll"] # "raised"
    /\ pc["poll"] = "return" =>
          /\ Len(PollReqs) = 7
          /\ PollData.ports = <<>> \/ DOMAIN PollData.ports \subseteq PortNumbers
          /\ AllRequestsFailed => PollData = GoodtopData

C1_Witness ==
    /\ pc["poll"] = "return"
    /\ Len(PollReqs) = 7
    /\ AllRequestsFailed
    /\ PollData = GoodtopData

\* C2: the keys of the ports mapping are the port numbers of the rows the statistics
\* page returned: the statistics step sets them, the settings, PoE-ports and MAC-table
\* steps leave the key set as it is, and no step touches a key outside it.
C2_PortsFromStatsOnly ==
    [][ /\ pc["poll"] = "stats" /\ pc'["poll"] = "settings" =>
              DOMAIN data'["poll"].ports = Range(stats_rows')
        /\ pc["poll"] \in {"info", "poe_system"} => data'["poll"].ports = <<>>
        /\ pc["poll"] \in AfterStats \ {"return"} =>
              DOMAIN data'["poll"].ports = DOMAIN data["poll"].ports
        /\ pc'["poll"] = "return" =>
              \A n \in PortNumbers : n \in DOMAIN data'["poll"].ports <=> n \in Range(stats_rows')
      ]_vars

C2_Witness ==
    /\ pc["poll"] = "return"
    /\ DOMAIN PollData.ports = {1}
    /\ stats_rows # <<>>
    /\ PollData.ports[1].connected_macs # <<>>
    /\ PollData.ports[1].poe_enabled
    /\ PollData.ports[1].speed_duplex = "5"

C4_PoeSystemFailureOnlyZeroesWatts ==
    (/\ pc["poll"] = "return"
     /\ "poe_system" \in faults) =>
        /\ PollData.poe_total_watts = 0
        /\ "stats" \notin faults => DOMAIN PollData.ports = Range(stats_rows)
        /\ (coordinator.loaded /\ faults \ {"poe_system"} = prev_faults \ {"poe_system"}) =>
              PollData = [coordinator.data EXCEPT !.poe_total_watts = 0]

C4_Witness ==
    /\ pc["poll"] = "return"
    /\ faults = {"poe_system"}
    /\ prev_faults = {}
    /\ coordinator.loaded
    /\ coordinator.data.poe_total_watts = 125
    /\ PollData.poe_total_watts = 0
    /\ DOMAIN PollData.ports = {1, 12}
    /\ PollData.ports = coordinator.data.ports

\* the mutation call of the service task
ServiceReqs == reqs["service"]
ActionPaths == {"/pse_port.cgi", "/port.cgi"}
ActionReqs == {i \in 1..Len(ServiceReqs) : ServiceReqs[i].path \in ActionPaths}
SaveReqs == {i \in 1..Len(ServiceReqs) : ServiceReqs[i].path = "/save.cgi"}
ActionGot200 == \E i \in ActionReqs : ServiceReqs[i].kind = "ok"

\* C5 as stated: a mutation never raises and returns True exactly when its action POST
\* received HTTP 200, whatever the login POST and the save POST got.
C5_Original ==
    /\ pc["service"] # "raised"
    /\ pc["service"] = "returned" => (result["service"] <=> ActionGot200)

\* C6 as stated: a mutation sends exactly one save POST when its action POST received
\* HTTP 200, after the action POST, and none otherwise.
C6_Original ==
    pc["service"] = "returned" =>
        /\ ActionGot200 => Cardinality(SaveReqs) = 1
        /\ ~ActionGot200 => SaveReqs = {}
        /\ \A i \in SaveReqs : \E j \in ActionReqs : j < i

\* C7: a mutation whose login failed still sends its action POST next, and what it
\* returns is decided after the login: True exactly when the save POST followed the
\* action POST, False whenever the action POST failed.
C7_LoginFailureNotFatal ==
    /\ pc["service"] # "raised"
    /\ pc["service"] \in {"action", "save", "returned"} =>
          /\ Len(ServiceReqs) >= 1
          /\ ServiceReqs[1].path = "/login.cgi"
    /\ pc["service"] \in {"save", "returned"} =>
          /\ Len(ServiceReqs) >= 2
          /\ ServiceReqs[2].method = "POST"
          /\ ServiceReqs[2].path = ActionPath(call["service"])
    /\ pc["service"] = "returned" =>
          /\ result["service"] <=> Len(ServiceReqs) = 3
          /\ ServiceReqs[2].kind = "failed" => ~result["service"]

C7_Witness ==
    /\ pc["service"] = "returned"
    /\ ServiceReqs[1].kind = "failed"
    /\ ServiceReqs[2].kind = "ok"
    /\ result["service"]

\* C8: the action POST's portid field is the caller's port number less one, in decimal
\* (port 1 gives "0", port 12 gives "11"), and its state field is "1" for a request to
\* enable and "0" for a request to disable.
C8_PortIndexTranslation ==
    \A i \in ActionReqs :
        LET form == ServiceReqs[i].form
            c == call["service"]
        IN  /\ form["portid"] = Str(c.port_id - 1)
            /\ c.port_id = 1 => form["portid"] = "0"
            /\ c.port_id = 12 => form["portid"] = "11"
            /\ form["state"] = IF c.enabled THEN "1" ELSE "0"

C8_Witness ==
    /\ pc["service"] = "returned"
    /\ call["service"].op = "set_poe"
    /\ call["service"].port_id = 12
    /\ call["service"].enabled
    /\ ActionReqs # {}
    /\ \A i \in ActionReqs : ServiceReqs[i].form["portid"] = "11"

\* C9: no step of a mutation call, from the entity's turn_on or turn_off to the call's
\* return, changes the coordinator's snapshot, its entities, the client's fields or a
\* task's snapshot; the coordinator's snapshot changes only when a get_data returns.
C9_MutationLeavesRecords ==
    [][ /\ (pc["service"] # "idle" \/ pc'["service"] # "idle") =>
              /\ coordinator'.data = coordinator.data
              /\ coordinator'.entities = coordinator.entities
              /\ client' = client
              /\ data' = data
              /\ obj' = obj
        /\ coordinator'.data # coordinator.data => pc["poll"] = "return" /\ pc'["poll"] = "idle"
      ]_vars

C9_Witness ==
    /\ pc["service"] = "returned"
    /\ result["service"]
    /\ call["service"].op = "set_poe"
    /\ call["service"].port_id \in DOMAIN coordinator.data.ports
    /\ call["service"].enabled # coordinator.data.ports[call["service"].port_id].poe_enabled

\* the running poll met the same page outcomes as the poll before it
SameOutcomes == coordinator.loaded /\ faults = prev_faults

\* C10: a get_data that follows another against the same page responses returns a
\* snapshot equal to the first in every field, held in an object of its own: the first
\* snapshot is not written to while the second call runs.
C10_SequentialSnapshotsIdentical ==
    /\ [](pc["poll"] = "return" /\ SameOutcomes => PollData = coordinator.data)
    /\ [](pc["poll"] # "idle" => obj["poll"] # NoObject /\ obj["poll"] # obj["coordinator"])
    /\ [][pc["poll"] \notin {"idle", "return"} => coordinator'.data = coordinator.data]_vars

C10_Witness ==
    /\ pc["poll"] = "return"
    /\ SameOutcomes
    /\ faults = {}
    /\ DOMAIN PollData.ports = {1, 12}
    /\ Len(PollData.ports[1].connected_macs) = 1
    /\ Len(PollData.ports[12].connected_macs) = 1
    /\ PollData.poe_total_watts = 125
    /\ PollData = coordinator.data
    /\ obj["coordinator"] # NoObject
    /\ obj["poll"] # obj["coordinator"]


\* every login POST a task has sent in its running call
LoginReqs(t) == {i \in 1..Len(reqs[t]) : reqs[t][i].path = "/login.cgi"}

\* C11: the client's token is the hash of its username followed by its password, whatever
\* its host; no step of any operation changes it or another field of the client; every
\* session is opened with it as the admin cookie and every login POST carries it as its
\* Response field.
C11_TokenPureAndStable ==
    /\ [](/\ client.cookie = Md5(client.username \o client.password)
          /\ \A e \in SetupEntries :
                (e.username = client.username /\ e.password = client.password) =>
                    GoodtopApiClient(e.host, e.username, e.password).cookie = client.cookie
          /\ \A t \in Tasks :
                /\ session[t].open => session[t].cookies = <<"admin", client.cookie>>
                /\ \A i \in LoginReqs(t) : reqs[t][i].form["Response"] = client.cookie)
    /\ [][client' = client]_vars

C11_Witness ==
    /\ client.username = "root"
    /\ client.password = ""
    /\ client.cookie = "md5(root)"
    /\ coordinator.loaded
    /\ pc["service"] = "save"
    /\ session["service"].cookies = <<"admin", "md5(root)">>
    /\ LoginReqs("service") = {1}
    /\ reqs["service"][1].form["Response"] = "md5(root)"


StatsPath == "/port.cgi?page=stats"
EnrichmentPaths == {"/port.cgi", "/pse_port.cgi", "/login.cgi", "/mac.cgi?page=fwd_tbl"}

\* C12: whatever the earlier pages gave, the statistics fetch is the third request of a
\* get_data and has filled the ports mapping before the first request of the settings,
\* PoE-ports and MAC-table steps is sent; until it has run no such request is sent.
C12_StatsBeforeEnrichment ==
    /\ pc["poll"] \in {"info", "poe_system", "stats"} =>
          /\ PollData.ports = <<>>
          /\ \A i \in 1..Len(PollReqs) : PollReqs[i].path \notin EnrichmentPaths \cup {StatsPath}
    /\ pc["poll"] \in AfterStats =>
          /\ Len(PollReqs) >= 3
          /\ PollReqs[3].path = StatsPath
          /\ DOMAIN PollData.ports = Range(stats_rows)
          /\ \A i \in 1..Len(PollReqs) : PollReqs[i].path \in EnrichmentPaths => i > 3

C12_Witness ==
    /\ pc["poll"] = "settings"
    /\ Len(PollReqs) = 3
    /\ PollReqs[1].kind = "failed"
    /\ PollReqs[2].kind = "failed"
    /\ PollReqs[3].kind = "ok"
    /\ DOMAIN PollData.ports = {1, 12}


\* the snapshot one get_data builds alone from the device's pages when the requests for
\* the pages in failed fail
Alone(failed) ==
    LET R(page) == IF page \in failed THEN Failure("ClientError") ELSE Reply(page)
        d1 == fetch_system_info(GoodtopData, R("info")).data
        d2 == fetch_poe_system(d1, R("poe_system")).data
        d3 == fetch_port_stats(d2, R("stats")).data
        d4 == fetch_port_settings(d3, R("settings")).data
        d5 == fetch_poe_ports(d4, R("poe_ports")).data
    IN  fetch_mac_table(d5, R("mac_table")).data

\* C13: calls that overlap on one client hold different session objects and different
\* snapshot objects; a step of one call changes nothing of the other call and no field of
\* the client; and a get_data returns the snapshot it builds alone from the responses
\* it got, however the other call's steps fall between its own.
C13_ConcurrentCallsShareNothing ==
    /\ [](/\ \A t, u \in Tasks :
                t # u =>
                    /\ session[t].open /\ session[u].open => session[t].id # session[u].id
                    /\ obj[t] # NoObject => obj[t] # obj[u] /\ obj[t] # obj["coordinator"]
          /\ \A t \in Tasks :
                pc[t] \notin {"idle", "returned"} => session[t].open /\ session[t].id # NoSession
          /\ pc["poll"] = "return" => data["poll"] = Alone(faults)
          /\ pc["service"] = "return" => data["service"] = Alone({}))
    /\ [][ /\ client' = client
           /\ \A t \in Tasks :
                 pc'[t] = pc[t] =>
                     /\ data'[t] = data[t]
                     /\ session'[t] = session[t]
                     /\ reqs'[t] = reqs[t]
                     /\ obj'[t] = obj[t]
                     /\ call'[t] = call[t]
         ]_vars

C13_Witness ==
    /\ pc["poll"] = "return"
    /\ faults = {"info"}
    /\ data["poll"] = Alone({"info"})
    /\ data["poll"].model = ""
    /\ pc["service"] = "mac_table"
    /\ data["service"].model = "ZX-SWTG218"
    /\ session["poll"].id # session["service"].id
    /\ obj["poll"] # obj["service"]


\* C14: the client holds no mutation back for another: a task that is idle can start a
\* mutation and a task at its action POST can send it, whatever the other task is doing;
\* and the device's setting for the port, once an action POST has been answered with 200,
\* is the state that POST carried, so the one answered last decides it.
C14_OverlappingMutationsLastWins ==
    /\ [](\A t \in Tasks :
            /\ pc[t] = "idle" => ENABLED (\E on \in BOOLEAN : set_poe(t, 1, on))
            /\ pc[t] = "idle" => ENABLED (\E on \in BOOLEAN : set_port_state(t, 1, on, "0", "0"))
            /\ pc[t] = "action" => ENABLED (\E resp \in PostResponses : action_post(t, resp)))
    /\ [][\A t \in Tasks :
            (pc[t] = "action" /\ pc'[t] = "save") =>
                LET c == call[t]
                    mine == IF c.enabled THEN "1" ELSE "0"
                IN  /\ c.op = "set_poe" =>
                          device'[c.port_id] = [device[c.port_id] EXCEPT !.poe = mine]
                    /\ c.op = "set_port_state" =>
                          device'[c.port_id] = [device[c.port_id] EXCEPT !.state = mine]
         ]_vars

\* the call that began second has had its POST applied while the first is still to send
\* its own
C14_Witness ==
    /\ pc["poll"] = "action"
    /\ session["poll"].id = 1
    /\ call["poll"].op = "set_poe"
    /\ call["poll"].enabled
    /\ pc["service"] = "save"
    /\ session["service"].id = 2
    /\ call["service"].op = "set_poe"
    /\ ~call["service"].enabled
    /\ device[1].poe = "0"


\* C15: a mutation sends at most three requests, all POSTs: its login first, its action
\* POST second, its save third; none is sent twice, and a call whose login or action
\* POST failed sends no request again.
C15_SingleAttempt ==
    /\ Len(ServiceReqs) <= 3
    /\ \A i \in 1..Len(ServiceReqs) :
          /\ ServiceReqs[i].method = "POST"
          /\ ServiceReqs[i].path = CASE i = 1 -> "/login.cgi"
                                     [] i = 2 -> ActionPath(call["service"])
                                     [] OTHER -> "/save.cgi"
    /\ Cardinality(LoginReqs("service")) <= 1
    /\ Cardinality(ActionReqs) <= 1
    /\ Cardinality(SaveReqs) <= 1
    /\ pc["service"] = "login" => Len(ServiceReqs) = 0
    /\ pc["service"] = "action" => Len(ServiceReqs) = 1
    /\ pc["service"] = "save" => Len(ServiceReqs) = 2

C15_Witness ==
    /\ pc["service"] = "returned"
    /\ Len(ServiceReqs) = 2
    /\ ServiceReqs[1].kind = "failed"
    /\ ServiceReqs[2].kind = "failed"
    /\ ~result["service"]


\* the tasks with a client operation in progress
InProgress == {t \in Tasks : pc[t] \notin {"idle", "returned", "raised"}}
OpenSessions == {t \in Tasks : session[t].open}

\* C16: a task holds an open session exactly while its operation is in progress: the
\* session is closed when the operation has returned, with a value or after a failure,
\* so no session is open when no operation is in progress; sessions open at the same
\* time are different objects, and a request is only ever sent on the open session of
\* the call that sends it.
C16_SessionsClosedOnExit ==
    /\ [](/\ OpenSessions = InProgress
          /\ \A t \in Tasks \ InProgress : session[t] = ClosedSession
          /\ InProgress = {} => Cardinality(OpenSessions) = 0
          /\ \A t, u \in OpenSessions : t # u => session[t].id # session[u].id)
    /\ [][\A t \in Tasks :
            Len(reqs'[t]) > Len(reqs[t]) =>
                /\ session[t].open
                /\ \A u \in Tasks \ {t} : session[u].id # session[t].id
         ]_vars

C16_Witness ==
    /\ pc["service"] = "returned"
    /\ ~result["service"]
    /\ ServiceReqs[2].kind = "failed"
    /\ session["service"] = ClosedSession
    /\ pc["poll"] = "stats"
    /\ "info" \in faults
    /\ session["poll"].open


\* a request of the script's run failed in transport
TransportFailed == \E i \in 1..Len(script.sent) : script.sent[i].kind = "error"

\* C17 as stated: a run of office_switch.py in which a request failed in transport, be it
\* the login POST, a page fetch of the status command or the PoE toggle POST, ends having
\* printed a JSON object and with a non-zero exit status.
C17_Original ==
    (script.exit.done /\ TransportFailed) =>
        /\ script.stdout # <<>>
        /\ script.stdout[Len(script.stdout)].kind = "json"
        /\ script.exit.status # 0

(***************************************************************************)
(* A device that answers with an unexpected status. A poll gets, for each  *)
(* request, the page or a 401/500 that carries the page's body, the       *)
(* latter for up to MaxFaults requests; faults is the set of requests      *)
(* answered with such a status. A mutation's action POST gets any          *)
(* response, and faults then holds how it ended.                           *)
(***************************************************************************)
Unexpected(page) ==
    {Reply(page)} \cup
        (IF Cardinality(faults) < MaxFaults
         THEN {Http(s, dec, Reply(page).body) : s \in NonOkStatuses, dec \in BOOLEAN}
         ELSE {})

\* how the action POST ended goes to the ledger
Ended(resp) ==
    /\ faults' = faults \cup {Kind(resp)}
    /\ UNCHANGED <<prev_faults, stats_rows, mac_rows, device, script>>

NextStatus ==
    \/ Quiet /\ get_data("poll") /\ NoLedger
    \/ \E resp \in Unexpected("info") : system_info("poll", resp) /\ Charge("info", resp)
    \/ \E resp \in Unexpected("poe_system") :
            poe_system("poll", resp) /\ Charge("poe_system", resp)
    \/ \E resp \in Unexpected("stats") : port_stats("poll", resp) /\ Charge("stats", resp)
    \/ \E resp \in Unexpected("settings") :
            port_settings("poll", resp) /\ Charge("settings", resp)
    \/ \E resp \in Unexpected("poe_ports") :
            poe_ports("poll", resp) /\ Charge("poe_ports", resp)
    \/ \E resp \in Unexpected("login") : mac_login("poll", resp) /\ Charge("login", resp)
    \/ \E resp \in Unexpected("mac_table") :
            mac_table("poll", resp) /\ Charge("mac_table", resp)
    \/ get_data_return("poll") /\ Turnover
    \/ \E p \in PortNumbers, on \in BOOLEAN :
            Quiet /\ poe_switch_turn("service", p, on) /\ NoLedger
    \/ \E p \in PortNumbers, on \in BOOLEAN :
            Quiet /\ port_switch_turn("service", p, on) /\ NoLedger
    \/ mutation_login("service", Reply("login")) /\ NoLedger
    \/ \E resp \in PostResponses : action_post("service", resp) /\ Ended(resp)
    \/ save_post("service", Reply("login")) /\ NoLedger
    \/ switch_turned("service") /\ Turnover

SpecStatus == InitConcurrent /\ [][NextStatus]_vars

\* C18: an unexpected status is handled like a transport failure. A poll whose requests
\* for the pages in faults got a 401 or 500 (whatever body came with it) returns the
\* snapshot that transport errors on those pages give: the fields of such a page at
\* their defaults, the fields of the other pages as the pages give them. A mutation
\* whose action POST got a non-200 status returns False without a save POST, as one
\* whose action POST failed in transport does. (prev_faults = {"status"} after a
\* mutation: its action POST got such a status.)
C18_StatusLikeTransportFailure ==
    /\ pc["poll"] = "return" =>
          /\ PollData = Alone(faults)
          /\ "info" \in faults =>
                /\ PollData.model = "" /\ PollData.mac_address = ""
                /\ PollData.ip_address = "" /\ PollData.firmware_version = ""
                /\ PollData.hardware_version = ""
          /\ "info" \notin faults => PollData.model = Alone({}).model
          /\ "poe_system" \in faults => PollData.poe_total_watts = 0
          /\ "poe_system" \notin faults => PollData.poe_total_watts = Alone({}).poe_total_watts
          /\ "stats" \in faults => PollData.ports = <<>>
          /\ "stats" \notin faults => DOMAIN PollData.ports = DOMAIN Alone({}).ports
          /\ \A p \in DOMAIN PollData.ports :
                /\ PollData.ports[p].speed_duplex =
                        IF "settings" \in faults THEN "0" ELSE Alone({}).ports[p].speed_duplex
                /\ PollData.ports[p].poe_enabled =
                        IF "poe_ports" \in faults THEN FALSE ELSE Alone({}).ports[p].poe_enabled
                /\ PollData.ports[p].connected_macs =
                        IF "mac_table" \in faults THEN <<>>
                        ELSE Alone({}).ports[p].connected_macs
    /\ (pc["service"] \in {"returned", "raised"} /\ faults \cap {"status", "error"} # {}) =>
          /\ pc["service"] = "returned"
          /\ result["service"] = FALSE
          /\ Cardinality(ActionReqs) = 1
          /\ SaveReqs = {}
          /\ ~session["service"].open

C18_Witness ==
    /\ prev_faults = {"status"}
    /\ ~coordinator.refresh_requested
    /\ pc["poll"] = "return"
    /\ faults = {"poe_system"}
    /\ PollData.poe_total_watts = 0
    /\ DOMAIN PollData.ports = {1, 12}
    /\ PollData.ports[1].speed_duplex = "5"
    /\ PollData.ports[12].poe_enabled
    /\ PollData.ports[1].connected_macs # <<>>

\* the client of the state is the one built from config entry e
ConfiguredAs(e) == client = GoodtopApiClient(e.host, e.username, e.password)

\* host carries a scheme: it holds "://"
SchemeGiven(host) ==
    \E i \in 1..Len(host) : i + 2 <= Len(host) /\ SubSeq(host, i, i + 2) = <<":", "/", "/">>

\* C19: the base URL of the client is the configured host without its trailing slashes,
\* with http:// put before it when the configured host names no scheme, and as given
\* when it names one.
C19_Original ==
    \A e \in SetupEntries :
        ConfiguredAs(e) =>
            client.host = IF SchemeGiven(e.host) THEN RStripSlash(e.host)
                          ELSE Chars("http://") \o RStripSlash(e.host)

\* the places of the forwarding-table rows that name port p
RowsOf(p) == {i \in 1..Len(mac_rows) : mac_rows[i].port = p}

\* the address of row i was in no row of its port before it: letter case apart, as
\* 00:e2:.. and 00:E2:.. are one address
FirstRow(i) ==
    \A j \in 1..(i - 1) :
        mac_rows[j].port = mac_rows[i].port => Upper(mac_rows[j].mac) # Upper(mac_rows[i].mac)

\* C20: when the poll has fetched the forwarding-table page, each port's connected_macs
\* holds no address twice; it holds exactly the addresses (in upper case) of the rows
\* whose port column is the port's number, in the order of their first rows; a row that
\* names a port the ports mapping lacks adds no record and no address.
C20_ConnectedMacs ==
    pc["poll"] = "return" =>
        /\ \A i \in 1..Len(mac_rows) :
              mac_rows[i].port \notin DOMAIN PollData.ports =>
                  \A p \in DOMAIN PollData.ports :
                      Upper(mac_rows[i].mac) \notin Range(PollData.ports[p].connected_macs)
        /\ DOMAIN PollData.ports = Range(stats_rows)
        /\ \A p \in DOMAIN PollData.ports :
              LET macs == PollData.ports[p].connected_macs
              IN  /\ \A m, n \in 1..Len(macs) : macs[m] = macs[n] => m = n
                  /\ Range(macs) = {Upper(mac_rows[i].mac) : i \in RowsOf(p)}
                  /\ \A m, n \in 1..Len(macs) :
                        m < n =>
                            \E i, j \in RowsOf(p) :
                                /\ i < j
                                /\ FirstRow(i) /\ Upper(mac_rows[i].mac) = macs[m]
                                /\ FirstRow(j) /\ Upper(mac_rows[j].mac) = macs[n]

C20_Witness ==
    /\ pc["poll"] = "return"
    /\ DOMAIN PollData.ports = {1, 12}
    /\ Len(mac_rows) = MaxMacRows
    /\ \A i \in 1..Len(mac_rows) : mac_rows[i].mac = "00:e2:69:73:71:3a" <=> i = 1
    /\ \A i \in 1..Len(mac_rows) : mac_rows[i].mac = "AA:BB:CC:DD:EE:FF" <=> i = 2
    /\ PollData.ports[1].connected_macs = <<"00:E2:69:73:71:3A", "AA:BB:CC:DD:EE:FF">>
    /\ PollData.ports[12].connected_macs = <<>>

(***************************************************************************)
(* The entities' reported states, read from the coordinator's snapshot,    *)
(* against devices whose statistics page gives port 1 each kind of link    *)
(* text. The coordinator polls and the switches mutate as above.           *)
(***************************************************************************)
\* a sensor that takes every link text but "Down" as up
link_is_on_exact(port_id) ==
    LET ports == coordinator.data.ports
    IN  IF port_id \in DOMAIN ports THEN ports[port_id].link # "Down" ELSE FALSE

\* GoodtopPortLinkSensor.is_on
link_is_on(port_id) ==
    LET ports == coordinator.data.ports
    IN  IF port_id \in DOMAIN ports
        THEN LET link == Lower(ports[port_id].link)
             IN  link # "down" /\ link # ""
        ELSE FALSE

LinkTexts == {"1000M", "Up", "Down", "DOWN", "down", " "}

\* the settings page selects speed/duplex 5 and flow control 1 for port 1, and nothing
\* for port 12
EntityFixtures ==
    { [ClientFixture EXCEPT
          !.stats = <<StatsRow(TRUE, 1, "Enable", l, 120, 0, 98, 1),
                      StatsRow(TRUE, 12, "Enable", "1000M", 120, 0, 98, 1)>>,
          !.settings = <<Label(1), Word("speed_duplex"), Option("5", TRUE),
                         Word("flow"), Option("1", TRUE)>>] :
        l \in LinkTexts }

InitEntities ==
    /\ client \in {GoodtopApiClient(e.host, e.username, e.password) : e \in ConfigEntries}
    /\ fixture \in EntityFixtures
    /\ faults = {}
    /\ prev_faults = {}
    /\ stats_rows = <<>>
    /\ mac_rows = <<>>
    /\ device = NoDevice
    /\ script = NoScript
    /\ coordinator = NoCoordinatorData
    /\ obj = [h \in Holders |-> NoObject]
    /\ pc = [t \in Tasks |-> "idle"]
    /\ call = [t \in Tasks |-> NoCall]
    /\ data = [t \in Tasks |-> GoodtopData]
    /\ session = [t \in Tasks |-> ClosedSession]
    /\ reqs = [t \in Tasks |-> <<>>]
    /\ result = [t \in Tasks |-> FALSE]

SpecEntities == InitEntities /\ [][Next]_vars

\* the snapshot the entities read
Snapshot == coordinator.data

\* C21: the link sensor of a port reports up exactly when the port is in the current
\* snapshot and its link text is not empty and is not "down" in any letter case; so it
\* reports up for "Up" and "1000M", and down for "Down", for an empty text and for a
\* port the snapshot lacks.
C21_LinkSensor ==
    \A p \in coordinator.entities :
        /\ link_is_on(p) <=>
              /\ p \in DOMAIN Snapshot.ports
              /\ Snapshot.ports[p].link \notin {"", "down", "Down", "DOWN"}
        /\ (p \in DOMAIN Snapshot.ports /\ Snapshot.ports[p].link \in {"Up", "1000M"}) =>
              link_is_on(p)
        /\ p \notin DOMAIN Snapshot.ports => ~link_is_on(p)

C21_Witness ==
    /\ coordinator.entities = {1, 12}
    /\ DOMAIN Snapshot.ports = {1, 12}
    /\ Snapshot.ports[1].link = "DOWN"
    /\ Snapshot.ports[12].link = "1000M"
    /\ ~link_is_on(1)
    /\ link_is_on(12)

\* the record of port p in the snapshot, or the defaults the port switch takes for a
\* port the snapshot lacks
Codes(p) ==
    IF p \in DOMAIN Snapshot.ports
    THEN [speed_duplex |-> Snapshot.ports[p].speed_duplex,
          flow_control |-> Snapshot.ports[p].flow_control]
    ELSE [speed_duplex |-> "0", flow_control |-> "0"]

\* C22: the port switch gives set_port_state the speed_duplex and flow_control codes of
\* the port's record in the current snapshot, "0" and "0" for a port the snapshot
\* lacks, and the POST to /port.cgi carries exactly the codes the call was given as
\* its speed_duplex and flow fields.
C22_PortSwitchPreservesCodes ==
    LET c == call["service"]
    IN  c.op = "set_port_state" =>
            /\ c.speed_duplex = Codes(c.port_id).speed_duplex
            /\ c.flow_control = Codes(c.port_id).flow_control
            /\ c.port_id \notin DOMAIN Snapshot.ports =>
                  c.speed_duplex = "0" /\ c.flow_control = "0"
            /\ \A i \in ActionReqs :
                  /\ ServiceReqs[i].path = "/port.cgi"
                  /\ ServiceReqs[i].form["speed_duplex"] = c.speed_duplex
                  /\ ServiceReqs[i].form["flow"] = c.flow_control

C22_Witness ==
    /\ pc["service"] = "returned"
    /\ call["service"].op = "set_port_state"
    /\ call["service"].port_id = 1
    /\ ~call["service"].enabled
    /\ Snapshot.ports[1].speed_duplex = "5"
    /\ Snapshot.ports[1].flow_control = "1"
    /\ ActionReqs # {}
    /\ \A i \in ActionReqs :
          ServiceReqs[i].form["speed_duplex"] = "5" /\ ServiceReqs[i].form["flow"] = "1"

\* the PoE-ports page the poll was given
PoePage == IF "poe_ports" \in faults THEN <<>> ELSE fixture["poe_ports"]

\* a word that is "Enable" in some letter case stands after the label of port p
EnableAfterLabel(p) ==
    \E i \in 1..Len(PoePage) : \E j \in (i + 1)..Len(PoePage) :
        /\ PoePage[i] = Label(p)
        /\ PoePage[j].kind = "word" /\ PoePage[j].value \in {"Enable", "enable", "ENABLE"}

\* C23: after the PoE-ports page is fetched, a port's poe_enabled is True when "Enable"
\* stands somewhere after the label "Port N" of that port; it is False otherwise,
\* whether by a "Disable" after the label or by the default.
C23_Original ==
    pc["poll"] \in {"mac_login", "mac_table", "return"} =>
        \A p \in DOMAIN PollData.ports :
            PollData.ports[p].poe_enabled <=> EnableAfterLabel(p)

\* GoodtopPoeSwitch.is_on and GoodtopPortSwitch.is_on, read from snapshot d
poe_is_on(d, port_id) ==
    IF port_id \in DOMAIN d.ports THEN d.ports[port_id].poe_enabled ELSE FALSE

port_is_on(d, port_id) ==
    IF port_id \in DOMAIN d.ports THEN Lower(d.ports[port_id].state) = "enable" ELSE FALSE

\* C24: a switch entity asks the coordinator for a refresh exactly when its mutation
\* call gave True, and only once the call has returned, with its login, action POST
\* and save POST sent; after a call that gave False no refresh is asked for and the
\* entities report the states they reported before.
C24_RefreshIffMutationSucceeded ==
    [][ /\ (coordinator'.refresh_requested /\ ~coordinator.refresh_requested) =>
              /\ pc["service"] = "returned" /\ pc'["service"] = "idle"
              /\ result["service"]
              /\ Len(ServiceReqs) = 3
              /\ ActionReqs = {2} /\ SaveReqs = {3}
        /\ (pc["service"] = "returned" /\ pc'["service"] = "idle") =>
              /\ coordinator'.refresh_requested = (coordinator.refresh_requested \/ result["service"])
              /\ \A p \in coordinator.entities :
                    /\ poe_is_on(coordinator'.data, p) = poe_is_on(coordinator.data, p)
                    /\ port_is_on(coordinator'.data, p) = port_is_on(coordinator.data, p)
        /\ (pc["service"] \notin {"idle", "returned"}) =>
              coordinator'.refresh_requested = coordinator.refresh_requested
      ]_vars

C24_Witness ==
    /\ coordinator.refresh_requested
    /\ pc["service"] = "returned"
    /\ ~result["service"]
    /\ ActionReqs = {2}
    /\ port_is_on(coordinator.data, 1)
    /\ ~poe_is_on(coordinator.data, 1)

====
